---- MODULE Spec2Model ----
(***************************************************************************)
(* Model of pkg/handler/handler.go: the HTTP front door, the single-flight *)
(* build coordinator (Handler.build) and the dynamic rule cache            *)
(* (Handler.getRules / Handler.resetCR / Handler.start).                   *)
(*                                                                         *)
(* Strings are modelled as sequences of tokens: "/v2/app/manifests/v1" is  *)
(* <<"/","v2","/","app","/","manifests","/","v1">>.  Concatenation is \o,  *)
(* strings.Split / Join / HasPrefix work on the token sequences.           *)
(***************************************************************************)
EXTENDS Integers, Sequences, FiniteSets, TLC

\* ------------------------------------------------------------------ bounds
\* Number of request goroutines (each serves one request).
NumReq == 2
\* Number of store changes the informer delivers.
MaxEvents == 2

Procs == 1..NumReq

\* ------------------------------------------------------- program constants
StatusOK == 200
StatusNotFound == 404
StatusMethodNotAllowed == 405
StatusInternalServerError == 500
\* len(parts) < 4
MinParts == 4
\* no response written by the handler
NoStatus == 0
\* no mutex / no goroutine
NoMutex == 0

\* ------------------------------------------------------------ string model
\* strings.HasPrefix(s, prefix)
HasPrefix(s, prefix) ==
    /\ Len(s) >= Len(prefix)
    /\ SubSeq(s, 1, Len(prefix)) = prefix

\* strings.Split(s, "/"): the pieces between the separators, empty pieces kept
RECURSIVE SplitFrom(_, _, _)
SplitFrom(s, i, cur) ==
    IF i > Len(s) THEN <<cur>>
    ELSE IF s[i] = "/" THEN <<cur>> \o SplitFrom(s, i + 1, <<>>)
    ELSE SplitFrom(s, i + 1, Append(cur, s[i]))

Split(s) == SplitFrom(s, 1, <<>>)

\* strings.Join(parts, "/")
RECURSIVE Join(_)
Join(parts) ==
    IF Len(parts) = 0 THEN <<>>
    ELSE IF Len(parts) = 1 THEN parts[1]
    ELSE parts[1] \o <<"/">> \o Join(Tail(parts))

\* --------------------------------------------------------------- requests
PathApp   == <<"/", "v2", "/", "app", "/", "manifests", "/", "v1">>
PathOrg   == <<"/", "v2", "/", "org", "/", "app", "/", "manifests", "/", "v1">>
PathDig   == <<"/", "v2", "/", "app", "/", "manifests", "/", "sha256:", "abc">>
PathBlob  == <<"/", "v2", "/", "app", "/", "blobs", "/", "sha256:", "abc">>
PathRoot  == <<"/", "v2", "/">>
PathOther == <<"/", "healthz">>
PathShort == <<"/", "v2", "/", "app">>
PathTags  == <<"/", "v2", "/", "app", "/", "tags", "/", "list">>

Request(method, path) == [method |-> method, path |-> path]

\* manifest requests by tag
TagRequests == { Request("GET", PathApp), Request("HEAD", PathOrg) }
\* the other requests: by digest, blobs, and the ones routing answers itself
RouteRequests ==
    { Request("GET", PathDig),
      Request("GET", PathBlob),
      Request("HEAD", PathRoot),
      Request("GET", PathOther),
      Request("GET", PathShort),
      Request("GET", PathTags),
      Request("POST", PathApp),
      Request("POST", PathOther) }

\* parts := strings.Split(r.URL.Path, "/")
Parts(r) == Split(r.path)
\* image := strings.Join(parts[2:len(parts)-2], "/")
ImageOf(r) == Join(SubSeq(Parts(r), 3, Len(Parts(r)) - 2))
\* typ := parts[len(parts)-2]
TypOf(r) == Parts(r)[Len(Parts(r)) - 1]
\* parts[len(parts)-1]
LastOf(r) == Parts(r)[Len(Parts(r))]

\* a registry key that ignores the image and the tag
RefSame(image, tag) == <<":">>
\* ref := image + ":" + tag
RefOf(image, tag) == image \o <<":">> \o tag
ReqRef(r) == RefOf(ImageOf(r), LastOf(r))

DigestPrefixAlways(tag) == FALSE
\* strings.HasPrefix(tag, "sha256:")
IsDigest(tag) == HasPrefix(tag, <<"sha256:">>)

\* a routing decision that does not look at the method
RouteAnyMethod(r) ==
    IF ~HasPrefix(r.path, <<"/", "v2", "/">>) THEN "404"
    ELSE IF r.path = <<"/", "v2", "/">> THEN "ok"
    ELSE IF Len(Parts(r)) < MinParts THEN "404"
    ELSE IF TypOf(r) = <<"blobs">> THEN "blobs"
    ELSE IF TypOf(r) = <<"manifests">> THEN "manifests"
    ELSE "ignored"

\* ServeHTTP's routing decision: where the request goes, before any I/O
RouteOf(r) ==
    IF r.method # "GET" /\ r.method # "HEAD" THEN "405"
    ELSE IF ~HasPrefix(r.path, <<"/", "v2", "/">>) THEN "404"
    ELSE IF r.path = <<"/", "v2", "/">> THEN "ok"
    ELSE IF Len(Parts(r)) < MinParts THEN "404"
    ELSE IF TypOf(r) = <<"blobs">> THEN "blobs"
    ELSE IF TypOf(r) = <<"manifests">> THEN "manifests"
    ELSE "ignored"

\* ------------------------------------------------------------ Image Store
\* h.image.ManifestPath(image, tag) and h.image.BlobsPath(hash)
ManifestPath(image, tag) == <<"manifests", image, tag>>
BlobsPath(hash) == <<"blobs", hash>>

\* a file on disk: its path and whether its content decodes as JSON
File(path, json) == [path |-> path, json |-> json]
\* an os.Stat that never finds the file
ExistsNever(fs, path) == FALSE
\* os.Stat(path) / os.Open(path) succeeds
Exists(fs, path) == \E f \in fs : f.path = path

\* the file sets the cache directory may hold at startup
InitialFiles ==
    { {},
      {File(ManifestPath(<<"app">>, <<"v1">>), TRUE)},
      {File(BlobsPath(<<"sha256:", "abc">>), TRUE)},
      {File(BlobsPath(<<"sha256:", "abc">>), FALSE)} }

\* the outcomes of h.image.Build(ref, mutates)
BuildOutcomes == {"ok", "error"}
NoErr == "nil"
BuildErr == "build failed"

\* ------------------------------------------------------------------ rules
RefApp == RefOf(<<"app">>, <<"v1">>)
RefOrg == RefOf(<<"org", "/", "app">>, <<"v1">>)
RefDig == RefOf(<<"app">>, <<"sha256:", "abc">>)

\* v1alpha1.ImageSpec records; `valid` is whether pattern.NewRule accepts it
SpecAppHi  == [valid |-> TRUE, key |-> 1, accepts |-> {RefApp}, mutates |-> "M1"]
SpecAll    == [valid |-> TRUE, key |-> 2, accepts |-> {RefApp, RefOrg, RefDig},
               mutates |-> "M2"]
SpecOrgTie == [valid |-> TRUE, key |-> 2, accepts |-> {RefOrg}, mutates |-> "M3"]
SpecTop    == [valid |-> TRUE, key |-> 0, accepts |-> {RefApp}, mutates |-> "M4"]
SpecBad    == [valid |-> FALSE, key |-> 0, accepts |-> {}, mutates |-> ""]

\* the static configurations NewHandler may be given
StaticConfigs ==
    { <<>>,
      <<SpecAppHi>>,
      <<SpecAll, SpecAppHi>>,
      <<SpecOrgTie, SpecAll>> }

\* a long configuration: twelve specs of one precedence that all accept
\* app:v1, each with its own mutation, followed by one spec of higher
\* precedence for another reference
TieNames == <<"T1", "T2", "T3", "T4", "T5", "T6", "T7", "T8", "T9", "T10", "T11", "T12">>
LongConfig ==
    [i \in 1..(Len(TieNames) + 1) |->
        IF i <= Len(TieNames)
        THEN [valid |-> TRUE, key |-> 1, accepts |-> {RefApp}, mutates |-> TieNames[i]]
        ELSE [valid |-> TRUE, key |-> 0, accepts |-> {RefOrg}, mutates |-> "T13"]]

\* the cluster Image objects: a well-formed one and a malformed one
ObjNames == {"o1", "o2"}
ObjSpec(name) == IF name = "o1" THEN SpecTop ELSE SpecBad

\* pattern.NewRule(c): the rule of a well-formed spec
NewRuleOk(c) == c.valid
NewRule(c) == [key |-> c.key, accepts |-> c.accepts, mutates |-> c.mutates]

\* rule.LessThan(other)
LessThan(a, b) == a.key < b.key

\* rule.Match(ref): (mutates, ok)
MatchOk(rule, ref) == ref \in rule.accepts
MatchMutates(rule) == rule.mutates

\* the permutations of a sequence
Perms(s) ==
    LET n == Len(s)
        bij == { f \in [1..n -> 1..n] : \A i, j \in 1..n : i # j => f[i] # f[j] }
    IN  { [i \in 1..n |-> s[f[i]]] : f \in bij }

IsSorted(s) == \A i, j \in 1..Len(s) : i < j => ~LessThan(s[j], s[i])

\* sort.Slice(s, less) is pdqsort: a slice of at most InsertionSortMax
\* elements is sorted by insertion; a longer one is partitioned around a pivot
\* and its parts are sorted in turn.
InsertionSortMax == 12

\* data.Swap(i, j)
Swap(s, i, j) == [s EXCEPT ![i] = s[j], ![j] = s[i]]

\* insertion sort: for i := a+1..b-1, the element at i is swapped leftwards
\* while it is less than its left neighbour
RECURSIVE ShiftLeft(_, _)
ShiftLeft(s, j) ==
    IF j > 1 /\ LessThan(s[j], s[j - 1]) THEN ShiftLeft(Swap(s, j, j - 1), j - 1)
    ELSE s
RECURSIVE InsertionFrom(_, _)
InsertionFrom(s, i) ==
    IF i > Len(s) THEN s ELSE InsertionFrom(ShiftLeft(s, i), i + 1)
InsertionSort(s) == InsertionFrom(s, 2)

\* order2: the positions a, b ordered by their elements, and whether they
\* were exchanged
Order2(s, a, b) == IF LessThan(s[b], s[a]) THEN <<b, a, 1>> ELSE <<a, b, 0>>
\* median of the elements at three positions, with the number of exchanges
Median(s, a, b, c) ==
    LET o1 == Order2(s, a, b)
        o2 == Order2(s, o1[2], c)
        o3 == Order2(s, o1[1], o2[1])
    IN  [pivot |-> o3[2], swaps |-> o1[3] + o2[3] + o3[3]]
\* choosePivot for a slice of 8 to 49 elements: the median of the elements at
\* one, two and three quarters; no exchange hints at an increasing slice
ChoosePivot(s) ==
    LET q == Len(s) \div 4 IN Median(s, q + 1, 2 * q + 1, 3 * q + 1)
\* partialInsertionSort on a slice of fewer than 50 elements: reports whether
\* the slice is in order already and moves nothing
AlreadySorted(s) == \A i \in 2..Len(s) : ~LessThan(s[i], s[i - 1])

\* partition: the pivot is swapped to the front, elements less than
\* it are collected on the left by exchanging pairs found by the two scans,
\* and the pivot is swapped into the gap
RECURSIVE ScanUp(_, _, _)
ScanUp(t, i, j) ==
    IF i <= j /\ LessThan(t[i], t[1]) THEN ScanUp(t, i + 1, j) ELSE i
RECURSIVE ScanDown(_, _, _)
ScanDown(t, i, j) ==
    IF i <= j /\ ~LessThan(t[j], t[1]) THEN ScanDown(t, i, j - 1) ELSE j
RECURSIVE PartitionLoop(_, _, _)
PartitionLoop(t, i, j) ==
    LET i2 == ScanUp(t, i, j)
        j2 == ScanDown(t, i2, j)
    IN  IF i2 > j2 THEN [s |-> Swap(t, j2, 1), mid |-> j2]
        ELSE PartitionLoop(Swap(t, i2, j2), i2 + 1, j2 - 1)
Partition(s, pivot) == PartitionLoop(Swap(s, 1, pivot), 2, Len(s))

\* pdqsort on a slice of InsertionSortMax + 1 elements: returned as it is if
\* found in order, else partitioned once, both parts then being short enough
\* for insertion sort
Pdqsort(s) ==
    LET c == ChoosePivot(s) IN
    IF c.swaps = 0 /\ AlreadySorted(s) THEN s
    ELSE LET r == Partition(s, c.pivot) IN
         InsertionSort(SubSeq(r.s, 1, r.mid - 1)) \o <<r.s[r.mid]>>
             \o InsertionSort(SubSeq(r.s, r.mid + 1, Len(s)))

\* sort.Slice(s, less): the slice it leaves.  Slices longer than the ones
\* above are left to the contract of sort.Slice: sorted, the order of equal
\* elements not guaranteed.
SortSlice(s) ==
    IF Len(s) <= InsertionSortMax THEN {InsertionSort(s)}
    ELSE IF Len(s) = InsertionSortMax + 1 THEN {Pdqsort(s)}
    ELSE { t \in Perms(s) : IsSorted(t) }

\* a conversion loop that stops at the first spec NewRule rejects
RECURSIVE ConvertUntilBad(_)
ConvertUntilBad(specs) ==
    IF Len(specs) = 0 THEN <<>>
    ELSE IF NewRuleOk(specs[1]) THEN <<NewRule(specs[1])>> \o ConvertUntilBad(Tail(specs))
    ELSE <<>>

\* the rules of the well-formed specs of a list, in list order (the loops of
\* NewHandler and getRules; getRules skips a spec NewRule rejects)
RECURSIVE ConvertAll(_)
ConvertAll(specs) ==
    IF Len(specs) = 0 THEN <<>>
    ELSE IF NewRuleOk(specs[1]) THEN <<NewRule(specs[1])>> \o ConvertAll(Tail(specs))
    ELSE ConvertAll(Tail(specs))

\* the index of the rule the loop of Handler.build stops at, 0 when none matches
RECURSIVE LastMatchFrom(_, _, _)
LastMatchFrom(rs, ref, i) ==
    IF i < 1 THEN 0
    ELSE IF MatchOk(rs[i], ref) THEN i
    ELSE LastMatchFrom(rs, ref, i - 1)
LastMatchIndex(rs, ref) == LastMatchFrom(rs, ref, Len(rs))
AnyRuleIndex(rs, ref) == IF Len(rs) > 0 THEN 1 ELSE 0

RECURSIVE FirstMatchFrom(_, _, _)
FirstMatchFrom(rs, ref, i) ==
    IF i > Len(rs) THEN 0
    ELSE IF MatchOk(rs[i], ref) THEN i
    ELSE FirstMatchFrom(rs, ref, i + 1)

\* for _, rule := range rules { mutates, ok := rule.Match(ref); if ok {...; break} }
FirstMatchIndex(rs, ref) == FirstMatchFrom(rs, ref, 1)


\* ------------------------------------------------------------------ state
VARIABLES
    config,      \* the config argument of NewHandler
    rules,       \* h.rules: the static rules, sorted by NewHandler
    clientset,   \* h.clientset != nil
    store,       \* h.store != nil
    objects,     \* contents of the informer's store: object name -> ImageSpec
    cr,          \* h.cr: the cached merged list
    crMut,       \* h.crMut: the goroutine holding it, NoMutex when free
    buildMutex,  \* h.buildMutex: reference -> the mutex registered for it
    rw,          \* the sync.RWMutex created by goroutine p in Handler.build
    files,       \* files of the cache directory
    wpc,         \* position of the goroutine running Handler.start
    events,      \* number of store changes made so far
    pc,          \* position of each request goroutine
    req,         \* the request each goroutine serves
    mut,         \* build: the mutex LoadOrStore returned
    rulesL,      \* build: rules := h.getRules()
    list,        \* getRules: list := h.store.List()
    mutates,     \* build: the mutation passed to h.image.Build
    err,         \* build: the error build returns
    resp,        \* the response written
    calls,       \* history: number of h.image.Build calls each goroutine made
    lastRet,     \* history: the list getRules last returned since the last resetCR
    via          \* history: how the goroutine's getRules returned

shared == <<config, rules, clientset, store, objects, cr, crMut, buildMutex, rw, files, wpc, events>>
locals == <<pc, req, mut, rulesL, list, mutates, err, resp>>
history == <<calls, lastRet, via>>
vars == <<shared, locals, history>>

\* a nil slice; make([]*pattern.Rule, 0, n) is not nil even when empty
NilSlice == [isNil |-> TRUE, items |-> <<>>]
Slice(items) == [isNil |-> FALSE, items |-> items]

\* a fresh &sync.RWMutex{}
NewRWMutex == [writer |-> "free", readers |-> {}]

NoResponse == [status |-> NoStatus, body |-> ""]
Response(status, body) == [status |-> status, body |-> body]

\* the objects of the store in one order (h.store.List() ranges over a map)
RECURSIVE SeqOfSet(_)
SeqOfSet(S) ==
    IF S = {} THEN <<>>
    ELSE LET x == CHOOSE y \in S : TRUE IN <<x>> \o SeqOfSet(S \ {x})
StoreList(objs) == Perms([i \in 1..Cardinality(DOMAIN objs) |->
                            objs[SeqOfSet(DOMAIN objs)[i]]])

\* the lists getRules may cache for a store listing
Merged(static, listing) == SortSlice(static \o ConvertAll(listing))

\* the number of store changes whose notification (resetCR) has returned
Notified == IF wpc = "notify" THEN events - 1 ELSE events

TypeOK ==
    /\ clientset \in BOOLEAN /\ store \in BOOLEAN
    /\ DOMAIN objects \subseteq ObjNames
    /\ cr.isNil \in BOOLEAN
    /\ crMut \in {NoMutex} \cup Procs
    /\ \A r \in DOMAIN buildMutex : buildMutex[r] \in Procs
    /\ \A p \in Procs : rw[p].writer \in {"free", "pending", "held"}
    /\ wpc \in {"off", "start", "run", "notify"}
    /\ events \in 0..MaxEvents
    /\ \A p \in Procs : resp[p].status \in
         {NoStatus, StatusOK, StatusNotFound, StatusMethodNotAllowed,
          StatusInternalServerError}

\* The inputs of a run: the static configuration, whether a clientset is
\* given, the files cached at startup and the request of each goroutine.
\*  - concurrent requests for one tag while the cluster rules change;
\*  - requests for two tags, static rules only, the manifest cached or not;
\*  - the requests that never reach the build coordinator, static rules only;
\*  - concurrent requests for one tag under the long configuration.
\* h.rules is what NewHandler makes of the configuration.
Inputs ==
    \/ /\ clientset = TRUE
       /\ config \in {<<>>, <<SpecAll, SpecAppHi>>}
       /\ rules \in SortSlice(ConvertAll(config))
       /\ files = {}
       /\ req = [p \in Procs |-> Request("GET", PathApp)]
    \/ /\ clientset = FALSE
       /\ config \in StaticConfigs
       /\ rules \in SortSlice(ConvertAll(config))
       /\ files \in {{}, {File(ManifestPath(<<"app">>, <<"v1">>), TRUE)}}
       /\ req \in [Procs -> TagRequests]
    \/ /\ clientset = FALSE
       /\ config \in StaticConfigs
       /\ rules \in SortSlice(ConvertAll(config))
       /\ files \in InitialFiles
       /\ req \in [Procs -> RouteRequests]
    \/ /\ clientset = FALSE
       /\ config = LongConfig
       /\ rules \in SortSlice(ConvertAll(config))
       /\ files = {}
       /\ req = [p \in Procs |-> Request("GET", PathApp)]

\* ------------------------------------------------------------------- Init
\* The state NewHandler returns: static rules converted and sorted, nothing
\* cached, no build registered; the watch goroutine is started when a
\* clientset is given.
Init ==
    /\ Inputs
    /\ store = FALSE
    /\ objects = <<>>
    /\ cr = NilSlice
    /\ crMut = NoMutex
    /\ buildMutex = <<>>
    /\ rw = [p \in Procs |-> NewRWMutex]
    /\ wpc = IF clientset THEN "start" ELSE "off"
    /\ events = 0
    /\ pc = [p \in Procs |-> "idle"]
    /\ mut = [p \in Procs |-> NoMutex]
    /\ rulesL = [p \in Procs |-> <<>>]
    /\ list = [p \in Procs |-> <<>>]
    /\ mutates = [p \in Procs |-> ""]
    /\ err = [p \in Procs |-> NoErr]
    /\ resp = [p \in Procs |-> NoResponse]
    /\ calls = [p \in Procs |-> 0]
    /\ lastRet = NilSlice
    /\ via = [p \in Procs |-> ""]

\* ----------------------------------------------------------- front door
Finish(p, r) ==
    /\ pc' = [pc EXCEPT ![p] = "done"]
    /\ resp' = [resp EXCEPT ![p] = r]

\* the path serveManifest is given by Handler.manifests
ServePath(r) ==
    IF IsDigest(LastOf(r)) THEN BlobsPath(LastOf(r))
    ELSE ManifestPath(ImageOf(r), LastOf(r))

\* Handler.ServeHTTP: the request is routed
ServeHTTP(p) ==
    /\ pc[p] = "idle"
    /\ LET r == req[p] IN
            CASE RouteOf(r) = "405" ->
                   Finish(p, Response(StatusMethodNotAllowed, "method not allowed"))
              [] RouteOf(r) = "404" ->
                   Finish(p, Response(StatusNotFound, "not found"))
              [] RouteOf(r) = "ok" ->
                   Finish(p, Response(StatusOK, "ok"))
              [] RouteOf(r) = "ignored" ->
                   Finish(p, NoResponse)
              [] OTHER ->
                   /\ pc' = [pc EXCEPT ![p] = RouteOf(r)]
                   /\ UNCHANGED resp
    /\ UNCHANGED <<shared, req, mut, rulesL, list, mutates, err, history>>

\* Handler.blobs: http.ServeFile of the blob's path
Blobs(p) ==
    /\ pc[p] = "blobs"
    /\ IF Exists(files, BlobsPath(LastOf(req[p])))
       THEN Finish(p, Response(StatusOK, "file"))
       ELSE Finish(p, Response(StatusNotFound, "not found"))
    /\ UNCHANGED <<shared, req, mut, rulesL, list, mutates, err, history>>

\* Handler.manifests up to the call of build: the digest test and os.Stat
Manifests(p) ==
    /\ pc[p] = "manifests"
    /\ IF IsDigest(LastOf(req[p]))
       THEN pc' = [pc EXCEPT ![p] = "serve"]
       ELSE IF Exists(files, ManifestPath(ImageOf(req[p]), LastOf(req[p])))
       THEN pc' = [pc EXCEPT ![p] = "serve"]
       ELSE pc' = [pc EXCEPT ![p] = "build"]
    /\ UNCHANGED <<shared, req, mut, rulesL, list, mutates, err, resp, history>>

\* serveManifest: os.Open, decode the media type, http.ServeContent
ServeManifest(p) ==
    /\ pc[p] = "serve"
    /\ IF ~Exists(files, ServePath(req[p]))
       THEN Finish(p, Response(StatusNotFound, "not found"))
       ELSE IF File(ServePath(req[p]), TRUE) \in files
       THEN Finish(p, Response(StatusOK, "file"))
       ELSE Finish(p, Response(StatusInternalServerError, "decode error"))
    /\ UNCHANGED <<shared, req, mut, rulesL, list, mutates, err, history>>

\* ------------------------------------------------------ build coordinator
LoadedNever(m, ref) == FALSE
\* buildMutex.LoadOrStore(ref, ...): ok, an entry was there
Loaded(m, ref) == ref \in DOMAIN m

\* the registry with ref registered to mutex id
Stored(m, ref, id) == [r \in DOMAIN m \cup {ref} |-> IF r = ref THEN id ELSE m[r]]
\* a Delete that leaves the entry in place
DeletedNever(m, ref) == m
\* buildMutex.Delete(ref)
Deleted(m, ref) == [r \in DOMAIN m \ {ref} |-> m[r]]

\* mut, ok := h.buildMutex.LoadOrStore(ref, &sync.RWMutex{})
LoadOrStore(p) ==
    /\ pc[p] = "build"
    /\ LET ref == ReqRef(req[p]) IN
       IF Loaded(buildMutex, ref)
       THEN /\ mut' = [mut EXCEPT ![p] = buildMutex[ref]]
            /\ pc' = [pc EXCEPT ![p] = "rlock"]
            /\ UNCHANGED <<buildMutex, rw>>
       ELSE /\ buildMutex' = Stored(buildMutex, ref, p)
            /\ rw' = [rw EXCEPT ![p] = NewRWMutex]
            /\ mut' = [mut EXCEPT ![p] = p]
            /\ pc' = [pc EXCEPT ![p] = "lock"]
    /\ UNCHANGED <<config, rules, clientset, store, objects, cr, crMut, files, wpc, events,
                   req, rulesL, list, mutates, err, resp, history>>

\* a read lock that is never granted
CanRLockNever(m) == FALSE
\* sync.RWMutex.RLock proceeds unless a writer holds or awaits the lock
CanRLock(m) == m.writer = "free"

\* mut.RLock()
RLock(p) ==
    /\ pc[p] = "rlock"
    /\ CanRLock(rw[mut[p]])
    /\ rw' = [rw EXCEPT ![mut[p]].readers = @ \cup {p}]
    /\ pc' = [pc EXCEPT ![p] = "runlock"]
    /\ UNCHANGED <<config, rules, clientset, store, objects, cr, crMut, buildMutex, files, wpc,
                   events, req, mut, rulesL, list, mutates, err, resp, history>>

\* what manifests does with build's error: 500 and stop, or go on to serve
AfterBuildServe(p, e) ==
    /\ pc' = [pc EXCEPT ![p] = "serve"]
    /\ UNCHANGED resp

AfterBuild(p, e) ==
    IF e # NoErr
    THEN Finish(p, Response(StatusInternalServerError, e))
    ELSE /\ pc' = [pc EXCEPT ![p] = "serve"]
         /\ UNCHANGED resp

WaiterErrShared(p) == err[mut[p]]
\* the waiter's return value: return nil
WaiterErr(p) == NoErr

\* defer mut.RUnlock(); return nil
RUnlock(p) ==
    /\ pc[p] = "runlock"
    /\ rw' = [rw EXCEPT ![mut[p]].readers = @ \ {p}]
    /\ err' = [err EXCEPT ![p] = WaiterErr(p)]
    /\ AfterBuild(p, WaiterErr(p))
    /\ UNCHANGED <<config, rules, clientset, store, objects, cr, crMut, buildMutex, files, wpc,
                   events, req, mut, rulesL, list, mutates, history>>

\* mut.Lock(): taken at once when no reader holds the mutex, else announced
\* (new readers are held back) and awaited
Lock(p) ==
    /\ pc[p] = "lock"
    /\ IF rw[p].readers = {}
       THEN /\ rw' = [rw EXCEPT ![p].writer = "held"]
            /\ pc' = [pc EXCEPT ![p] = "getrules"]
       ELSE /\ rw' = [rw EXCEPT ![p].writer = "pending"]
            /\ pc' = [pc EXCEPT ![p] = "lockwait"]
    /\ UNCHANGED <<config, rules, clientset, store, objects, cr, crMut, buildMutex, files, wpc,
                   events, req, mut, rulesL, list, mutates, err, resp, history>>

\* mut.Lock() returns once the readers have left
LockWait(p) ==
    /\ pc[p] = "lockwait"
    /\ rw[p].readers = {}
    /\ rw' = [rw EXCEPT ![p].writer = "held"]
    /\ pc' = [pc EXCEPT ![p] = "getrules"]
    /\ UNCHANGED <<config, rules, clientset, store, objects, cr, crMut, buildMutex, files, wpc,
                   events, req, mut, rulesL, list, mutates, err, resp, history>>

\* ------------------------------------------------------------- rule cache
\* getRules returns rs
Returned(p, rs, how) ==
    /\ rulesL' = [rulesL EXCEPT ![p] = rs]
    /\ via' = [via EXCEPT ![p] = how]
    /\ lastRet' = Slice(rs)
    /\ pc' = [pc EXCEPT ![p] = "match"]

\* getRules: if h.store == nil { return h.rules }
GetRules(p) ==
    /\ pc[p] = "getrules"
    /\ IF ~store
       THEN Returned(p, rules, "static")
       ELSE /\ pc' = [pc EXCEPT ![p] = "crlock"]
            /\ UNCHANGED <<rulesL, via, lastRet>>
    /\ UNCHANGED <<shared, req, mut, list, mutates, err, resp, calls>>

\* getRules: h.crMut.Lock(); h.cr == nil; list := h.store.List()
CrList(p) ==
    /\ pc[p] = "crlock"
    /\ crMut = NoMutex
    /\ cr.isNil
    /\ crMut' = p
    /\ \E l \in StoreList(objects) : list' = [list EXCEPT ![p] = l]
    /\ pc' = [pc EXCEPT ![p] = "crstore"]
    /\ UNCHANGED <<config, rules, clientset, store, objects, cr, buildMutex, rw, files, wpc,
                   events, req, mut, rulesL, mutates, err, resp, history>>

\* getRules: append, convert, sort, h.cr = cr, return h.cr; h.crMut.Unlock()
CrStore(p) ==
    /\ pc[p] = "crstore"
    /\ \E s \in Merged(rules, list[p]) :
         /\ cr' = Slice(s)
         /\ Returned(p, s, "listed")
    /\ crMut' = NoMutex
    /\ list' = [list EXCEPT ![p] = <<>>]
    /\ UNCHANGED <<config, rules, clientset, store, objects, buildMutex, rw, files, wpc, events,
                   req, mut, mutates, err, resp, calls>>

\* getRules: h.crMut.Lock(); h.cr != nil; return h.cr; h.crMut.Unlock()
CrCached(p) ==
    /\ pc[p] = "crlock"
    /\ crMut = NoMutex
    /\ ~cr.isNil
    /\ Returned(p, cr.items, "cached")
    /\ UNCHANGED <<shared, req, mut, list, mutates, err, resp, calls>>

\* ------------------------------------------------------------ build, cont.
\* the loop over the rules: the first match calls h.image.Build, no match
\* falls through to return nil
Match(p) ==
    /\ pc[p] = "match"
    /\ LET i == FirstMatchIndex(rulesL[p], ReqRef(req[p])) IN
       IF i = 0
       THEN /\ pc' = [pc EXCEPT ![p] = "delete"]
            /\ UNCHANGED <<mutates, calls>>
       ELSE /\ mutates' = [mutates EXCEPT ![p] = MatchMutates(rulesL[p][i])]
            /\ calls' = [calls EXCEPT ![p] = @ + 1]
            /\ pc' = [pc EXCEPT ![p] = "building"]
    /\ UNCHANGED <<shared, req, mut, rulesL, list, err, resp, lastRet, via>>

\* h.image.Build returns: the manifest written and nil, or an error and no file
BuildReturn(p) ==
    /\ pc[p] = "building"
    /\ \E o \in BuildOutcomes :
         IF o = "ok"
         THEN /\ files' = files \cup
                    {File(ManifestPath(ImageOf(req[p]), LastOf(req[p])), TRUE)}
              /\ err' = [err EXCEPT ![p] = NoErr]
         ELSE /\ err' = [err EXCEPT ![p] = BuildErr]
              /\ UNCHANGED files
    /\ pc' = [pc EXCEPT ![p] = "delete"]
    /\ UNCHANGED <<config, rules, clientset, store, objects, cr, crMut, buildMutex, rw, wpc,
                   events, req, mut, rulesL, list, mutates, resp, history>>

\* deferred: h.buildMutex.Delete(ref)
Delete(p) ==
    /\ pc[p] = "delete"
    /\ buildMutex' = Deleted(buildMutex, ReqRef(req[p]))
    /\ pc' = [pc EXCEPT ![p] = "unlock"]
    /\ UNCHANGED <<config, rules, clientset, store, objects, cr, crMut, rw, files, wpc, events,
                   req, mut, rulesL, list, mutates, err, resp, history>>

\* deferred: mut.Unlock(); build returns err to manifests (its locals are gone)
Unlock(p) ==
    /\ pc[p] = "unlock"
    /\ rw' = [rw EXCEPT ![p].writer = "free"]
    /\ AfterBuild(p, err[p])
    /\ rulesL' = [rulesL EXCEPT ![p] = <<>>]
    /\ mutates' = [mutates EXCEPT ![p] = ""]
    /\ via' = [via EXCEPT ![p] = ""]
    /\ UNCHANGED <<config, rules, clientset, store, objects, cr, crMut, buildMutex, files, wpc,
                   events, req, mut, list, err, calls, lastRet>>

\* ------------------------------------------------- watch goroutine (start)
\* h.store = store, then controller.Run
Start ==
    /\ wpc = "start"
    /\ store' = TRUE
    /\ wpc' = "run"
    /\ UNCHANGED <<config, rules, clientset, objects, cr, crMut, buildMutex, rw, files, events,
                   locals, history>>

\* the store contents after one add or delete
Changes(objs) ==
    { [n \in DOMAIN objs \cup {name} |-> ObjSpec(n)] : name \in ObjNames \ DOMAIN objs }
    \cup { [n \in DOMAIN objs \ {name} |-> objs[n]] : name \in DOMAIN objs }

\* the informer applies a change to its store; the handler call comes next
StoreChange ==
    /\ wpc = "run"
    /\ events < MaxEvents
    /\ objects' \in Changes(objects)
    /\ events' = events + 1
    /\ wpc' = "notify"
    /\ UNCHANGED <<config, rules, clientset, store, cr, crMut, buildMutex, rw, files,
                   locals, history>>

KeepCR(c) == c
\* resetCR: h.cr = nil
ResetValue(c) == NilSlice

\* a resetCR that clears h.cr without taking h.crMut
ResetCRNoLock ==
    /\ wpc = "notify"
    /\ cr' = NilSlice
    /\ wpc' = "run"
    /\ lastRet' = NilSlice
    /\ UNCHANGED <<config, rules, clientset, store, objects, crMut, buildMutex, rw, files, events,
                   locals, calls, via>>

\* the informer calls AddFunc / UpdateFunc / DeleteFunc: resetCR takes h.crMut,
\* sets h.cr = nil and releases it
ResetCR ==
    /\ wpc = "notify"
    /\ crMut = NoMutex
    /\ cr' = ResetValue(cr)
    /\ wpc' = "run"
    /\ lastRet' = NilSlice
    /\ UNCHANGED <<config, rules, clientset, store, objects, crMut, buildMutex, rw, files, events,
                   locals, calls, via>>

\* ------------------------------------------------------------------- Next
Next ==
    \/ \E p \in Procs : ServeHTTP(p)
    \/ \E p \in Procs : Blobs(p)
    \/ \E p \in Procs : Manifests(p)
    \/ \E p \in Procs : ServeManifest(p)
    \/ \E p \in Procs : LoadOrStore(p)
    \/ \E p \in Procs : RLock(p)
    \/ \E p \in Procs : RUnlock(p)
    \/ \E p \in Procs : Lock(p)
    \/ \E p \in Procs : LockWait(p)
    \/ \E p \in Procs : GetRules(p)
    \/ \E p \in Procs : CrList(p)
    \/ \E p \in Procs : CrStore(p)
    \/ \E p \in Procs : CrCached(p)
    \/ \E p \in Procs : Match(p)
    \/ \E p \in Procs : BuildReturn(p)
    \/ \E p \in Procs : Delete(p)
    \/ \E p \in Procs : Unlock(p)
    \/ Start
    \/ StoreChange
    \/ ResetCR

Spec == Init /\ [][Next]_vars

\* Scheduling: a goroutine that can take its next step eventually takes it
\* (the Go scheduler runs every runnable goroutine, a mutex that is free is
\* handed to a goroutine waiting for it, and h.image.Build returns).  The
\* store changes are the environment's: none is ever required to happen.
Fairness ==
    /\ \A p \in Procs :
         /\ WF_vars(ServeHTTP(p)) /\ WF_vars(Blobs(p)) /\ WF_vars(Manifests(p))
         /\ WF_vars(ServeManifest(p)) /\ WF_vars(LoadOrStore(p))
         /\ WF_vars(RLock(p)) /\ WF_vars(RUnlock(p))
         /\ WF_vars(Lock(p)) /\ WF_vars(LockWait(p))
         /\ WF_vars(GetRules(p)) /\ WF_vars(CrList(p)) /\ WF_vars(CrStore(p))
         /\ WF_vars(CrCached(p)) /\ WF_vars(Match(p)) /\ WF_vars(BuildReturn(p))
         /\ WF_vars(Delete(p)) /\ WF_vars(Unlock(p))
    /\ WF_vars(Start)
    /\ WF_vars(ResetCR)

FairSpec == Init /\ [][Next]_vars /\ Fairness


\* ================================================================ claims
\* the requests of the runs and, for each, what ServeHTTP and manifests
\* derive from it: the route, the reference, the digest test and the
\* manifest path
Requests == TagRequests \cup RouteRequests
RouteTable == [r \in Requests |-> RouteOf(r)]
RefTable == [r \in Requests |-> ReqRef(r)]
DigestTable == [r \in Requests |-> HasPrefix(LastOf(r), <<"sha256:">>)]
ManifestTable == [r \in Requests |-> ManifestPath(ImageOf(r), LastOf(r))]

\* the reference of the request goroutine p serves
RefP(p) == RefTable[req[p]]
\* p serves a manifest request by digest / by tag
IsDigestRequest(p) == RouteTable[req[p]] = "manifests" /\ DigestTable[req[p]]
IsTagRequest(p) == RouteTable[req[p]] = "manifests" /\ ~DigestTable[req[p]]
\* the manifest file of p's request is on disk
HasManifest(p) == \E f \in files : f.path = ManifestTable[req[p]]
\* p created the registry entry it holds / p found an entry
IsBuilder(p) == mut[p] = p
IsWaiter(p) == mut[p] # NoMutex /\ mut[p] # p
\* build has returned to manifests
BuildDone(p) == mut[p] # NoMutex /\ pc[p] \in {"serve", "done"}

RECURSIVE SumCalls(_)
SumCalls(ps) ==
    IF ps = {} THEN 0
    ELSE LET p == CHOOSE q \in ps : TRUE IN calls[p] + SumCalls(ps \ {p})
\* the h.image.Build calls made so far for a reference
BuildCalls(ref) == SumCalls({p \in Procs : IsTagRequest(p) /\ RefP(p) = ref})

\* C1: N concurrent requests for one unbuilt tag with a matching rule make
\* exactly one Image Store build call over the whole run.  Stated for the runs
\* in which no build has failed (so that no retry is expected): never a second
\* call, and a call is made unless the manifest was there from the start.
C1_ExactlyOneBuild ==
    \A p \in Procs :
        (/\ IsTagRequest(p)
         /\ FirstMatchFrom(rules, RefP(p), 1) # 0
         /\ \A q \in Procs : err[q] = NoErr)
        => /\ BuildCalls(RefP(p)) <= 1
           /\ (/\ \A q \in Procs : RefP(q) = RefP(p) => pc[q] = "done"
               /\ BuildCalls(RefP(p)) = 0)
              => HasManifest(p)

\* C1 failing run: the first build succeeded and wrote the manifest, and a
\* second goroutine whose os.Stat missed before that is building again.
C1_SecondBuild ==
    \E p, q \in Procs :
        /\ p # q /\ RefP(p) = RefP(q)
        /\ calls[p] = 1 /\ err[p] = NoErr /\ pc[p] \in {"unlock", "serve", "done"}
        /\ HasManifest(p)
        /\ calls[q] = 1 /\ pc[q] = "building"

\* C2: at most one Image Store build call is executing for a reference.
C2_BuildsSerialized ==
    \A p, q \in Procs :
        (p # q /\ pc[p] = "building" /\ pc[q] = "building") => RefP(p) # RefP(q)

\* C2 witness: a second builder has registered a fresh lock and is building
\* while the first builder is between its Delete and its Unlock.
C2_Witness ==
    \E p, q \in Procs :
        /\ p # q /\ RefP(p) = RefP(q)
        /\ pc[p] = "unlock" /\ calls[p] = 1 /\ rw[p].writer = "held"
        /\ pc[q] = "building" /\ buildMutex[RefP(q)] = q

\* C3: a waiter's build call returns only after the builder whose entry it
\* found has finished its build attempt and released the lock.
C3_WaiterReturnsAfterBuilder ==
    \A p \in Procs :
        (IsWaiter(p) /\ BuildDone(p)) => BuildDone(mut[p])

\* C3 failing run: the waiter has returned from build while the builder whose
\* entry it found has not yet taken the lock and has made no build call.
C3_WaiterAhead ==
    \E p \in Procs :
        /\ IsWaiter(p) /\ pc[p] = "serve" /\ err[p] = NoErr
        /\ pc[mut[p]] = "lock" /\ calls[mut[p]] = 0

\* C4: a build error is returned only to the goroutine that made the build
\* call; a goroutine that found an entry gets no error and is never answered
\* with the build error.
C4_ErrorOnlyToBuilder ==
    \A p \in Procs :
        /\ (err[p] # NoErr \/ resp[p].body = BuildErr) => (IsBuilder(p) /\ calls[p] = 1)
        /\ (IsWaiter(p) /\ pc[p] \in {"serve", "done"}) => err[p] = NoErr

\* C4 witness: a waiter has returned from build without error although the
\* build of the entry it found failed.
C4_Witness ==
    \E p \in Procs :
        /\ IsWaiter(p) /\ pc[p] = "serve" /\ err[p] = NoErr
        /\ err[mut[p]] = BuildErr

\* C5: a builder whose build failed makes no serve attempt and is answered 500;
\* a waiter gets no error and, the manifest file never having been created,
\* is answered 404 by the serve step.
C5_Builder500Waiter404 ==
    \A p \in Procs :
        /\ err[p] = BuildErr =>
             /\ pc[p] \in {"delete", "unlock", "done"}
             /\ pc[p] = "done" => resp[p] = Response(StatusInternalServerError, BuildErr)
        /\ (IsWaiter(p) /\ pc[p] = "done"
              /\ ~HasManifest(p))
           => (err[p] = NoErr /\ resp[p].status = StatusNotFound)

\* C5 witness: the builder was answered 500 and the waiter on its entry 404.
C5_Witness ==
    \E p, q \in Procs :
        /\ IsBuilder(p) /\ pc[p] = "done" /\ resp[p].status = StatusInternalServerError
        /\ mut[q] = p /\ q # p /\ pc[q] = "done" /\ resp[q].status = StatusNotFound

\* C6: a manifest request by digest never calls build, never registers a lock
\* and never reaches the Image Store build, whatever the rules and the files.
C6_DigestNeverBuilds ==
    \A p \in Procs :
        IsDigestRequest(p)
        => /\ pc[p] \in {"idle", "manifests", "serve", "done"}
           /\ mut[p] = NoMutex
           /\ calls[p] = 0
           /\ RefP(p) \notin DOMAIN buildMutex

\* C6 witness: a digest request was answered 404 (no such file) although a
\* rule matches its reference string.
C6_Witness ==
    \E p \in Procs :
        /\ IsDigestRequest(p)
        /\ \E i \in 1..Len(rules) : MatchOk(rules[i], RefP(p))
        /\ pc[p] = "done" /\ resp[p].status = StatusNotFound

\* no rule of the list accepts the reference
NoneMatches(rs, ref) == \A i \in 1..Len(rs) : ~MatchOk(rs[i], ref)

\* C7: a builder whose resolved rules do not match the reference makes no
\* build call, returns no error, removes its registry entry, creates no file
\* and is answered 404.
C7_NoMatchNoBuild ==
    \A p \in Procs :
        /\ (IsBuilder(p) /\ pc[p] \in {"delete", "unlock"}
              /\ NoneMatches(rulesL[p], RefP(p)))
           => (calls[p] = 0 /\ err[p] = NoErr /\ mutates[p] = "")
        /\ (IsBuilder(p) /\ calls[p] = 0 /\ pc[p] \in {"serve", "done"})
           => /\ err[p] = NoErr
              /\ ~(RefP(p) \in DOMAIN buildMutex /\ buildMutex[RefP(p)] = p)
              /\ rw[p].writer = "free"
              /\ (pc[p] = "done"
                    /\ ~HasManifest(p))
                 => resp[p].status = StatusNotFound
        /\ (IsBuilder(p) /\ HasManifest(p))
           => \E q \in Procs : RefP(q) = RefP(p) /\ calls[q] > 0

\* C7 witness: with rules configured, none matching, the builder was
\* answered 404 without a build call.
C7_Witness ==
    \E p \in Procs :
        /\ IsBuilder(p) /\ calls[p] = 0 /\ Len(rules) > 0
        /\ pc[p] = "done" /\ resp[p].status = StatusNotFound

\* the least index of a rule accepting the reference
MinMatch(rs, ref) ==
    CHOOSE i \in 1..Len(rs) :
        MatchOk(rs[i], ref) /\ \A j \in 1..(i - 1) : ~MatchOk(rs[j], ref)

\* C8: the builder makes at most one build call, with the mutation of the
\* first rule of the resolved list that accepts the reference, also when that
\* build fails.
C8_FirstMatchOnly ==
    \A p \in Procs :
        /\ calls[p] <= 1
        /\ (calls[p] = 1 /\ pc[p] \in {"building", "delete", "unlock"})
           => /\ ~NoneMatches(rulesL[p], RefP(p))
              /\ mutates[p] = rulesL[p][MinMatch(rulesL[p], RefP(p))].mutates

\* C8 witness: the build with the first match's mutation failed, a second
\* rule with another mutation accepts the reference, and no other call is made.
C8_Witness ==
    \E p \in Procs :
        /\ pc[p] = "unlock" /\ err[p] = BuildErr /\ calls[p] = 1
        /\ \E i, j \in 1..Len(rulesL[p]) :
             /\ i < j
             /\ MatchOk(rulesL[p][i], RefP(p)) /\ MatchOk(rulesL[p][j], RefP(p))
             /\ rulesL[p][i].mutates # rulesL[p][j].mutates

\* C9: two getRules calls with no resetCR between them return the same list.
C9_SameListBetweenResets ==
    [][ \A p \in Procs :
          (pc[p] # "match" /\ pc'[p] = "match" /\ ~lastRet.isNil)
          => rulesL'[p] = lastRet.items ]_vars

\* C9 failing run: with no resetCR so far, one getRules call returned the
\* static list (store not yet installed) and a later one the merged list.
C9_StaticThenMerged ==
    \E p, q \in Procs :
        /\ Notified = 0
        /\ via[p] = "static" /\ via[q] = "listed"
        /\ rulesL[p] = rules /\ rulesL[q] # rulesL[p]

\* the number of times x occurs in a sequence
CountIn(sq, x) == Cardinality({i \in 1..Len(sq) : sq[i] = x})
\* the well-formed specs of a listing, as rules
RulesOf(listing) ==
    { [key |-> c.key, accepts |-> c.accepts, mutates |-> c.mutates] :
        c \in {listing[i] : i \in {j \in 1..Len(listing) : listing[j].valid}} }
\* res is static and the rules of the well-formed specs of listing, sorted
IsSortedMerge(res, static, listing) ==
    /\ \A i, j \in 1..Len(res) : i < j => ~(res[j].key < res[i].key)
    /\ Len(res) = Len(static) + Cardinality({j \in 1..Len(listing) : listing[j].valid})
    /\ \A x \in {static[i] : i \in 1..Len(static)} \cup RulesOf(listing) :
         CountIn(res, x) = CountIn(static, x)
                            + Cardinality({j \in 1..Len(listing) :
                                 listing[j].valid /\ NewRule(listing[j]) = x})
\* listing holds exactly the objects of the store
IsListingOf(listing, objs) ==
    /\ Len(listing) = Cardinality(DOMAIN objs)
    /\ \A n \in DOMAIN objs : \E i \in 1..Len(listing) : listing[i] = objs[n]

\* C10: once resetCR has returned the cache is empty; a getRules call made
\* after a notification takes the cache path, and finding the cache empty it
\* lists the store as it then is and returns (and caches) the sorted merge of
\* the static rules with the rules of that listing.
C10_ResolveAfterInvalidate ==
    [][ /\ (wpc = "notify" /\ wpc' = "run") => (cr'.isNil /\ store')
        /\ \A p \in Procs :
             /\ (pc[p] = "getrules" /\ pc'[p] # "getrules" /\ Notified >= 1)
                => pc'[p] = "crlock"
             /\ (pc[p] = "crlock" /\ pc'[p] # "crlock" /\ cr.isNil)
                => (pc'[p] = "crstore" /\ IsListingOf(list'[p], objects))
             /\ (pc[p] = "crstore" /\ pc'[p] # "crstore")
                => /\ pc'[p] = "match"
                   /\ rulesL'[p] = cr'.items /\ ~cr'.isNil
                   /\ IsSortedMerge(rulesL'[p], rules, list[p]) ]_vars

\* C10 witness: after a notification, a getRules call listed the store and
\* returned the added rule in first place, ahead of the static rules, while
\* another goroutine still holds the list cached before the rule was added.
C10_Witness ==
    \E p, q \in Procs :
        /\ Notified >= 1 /\ Len(rules) > 0
        /\ pc[p] = "match" /\ via[p] = "listed"
        /\ Len(rulesL[p]) = Len(rules) + 1 /\ rulesL[p][1] = NewRule(SpecTop)
        /\ via[q] = "listed" /\ rulesL[q] = rules /\ pc[q] = "unlock"

\* C11: getRules returns the static list directly exactly when no clientset
\* (watch source) was given; with a clientset every getRules call goes through
\* the cache path (returns the cached list, or lists, merges, sorts and caches).
C11_StaticIffNoWatch ==
    \A p \in Procs :
        via[p] # "" => (via[p] = "static" <=> ~clientset)

\* C11 failing run: a clientset is configured and a getRules call returned the
\* static list without taking the cache path (the store was not installed yet).
C11_StaticWithWatch ==
    \E p \in Procs :
        /\ clientset /\ ~store /\ wpc = "start"
        /\ via[p] = "static" /\ pc[p] = "match" /\ cr.isNil

\* the elements of a sequence
Elems(sq) == {sq[i] : i \in 1..Len(sq)}
\* the positions of the specs of a listing that NewRule accepts / rejects
WellFormed(listing) == {i \in 1..Len(listing) : listing[i].valid}
Malformed(listing) == {i \in 1..Len(listing) : ~listing[i].valid}

\* C12: when getRules rebuilds the list from a listing holding malformed
\* objects, the call still returns: the returned and cached list holds every
\* static rule and the rule of every well-formed object of the listing and
\* nothing else, and the calling goroutine gets no error from it.
C12_MalformedSkipped ==
    [][ \A p \in Procs :
          (pc[p] = "crstore" /\ pc'[p] # "crstore" /\ Malformed(list[p]) # {})
          => /\ pc'[p] = "match" /\ err'[p] = NoErr /\ crMut' = NoMutex
             /\ cr' = [isNil |-> FALSE, items |-> rulesL'[p]]
             /\ Elems(rulesL'[p]) =
                  Elems(rules) \cup {NewRule(list[p][i]) : i \in WellFormed(list[p])}
             /\ Len(rulesL'[p]) = Len(rules) + Cardinality(WellFormed(list[p])) ]_vars

\* C12 witness: the store holds the well-formed and the malformed object, both
\* notifications have been delivered, and the only goroutine that resolved
\* since then got (and cached) the static rules plus the well-formed
\* object's rule.
C12_Witness ==
    \E p \in Procs :
        /\ DOMAIN objects = ObjNames /\ events = 2 /\ Notified = 2
        /\ \A q \in Procs \ {p} : pc[q] = "idle"
        /\ pc[p] = "match" /\ via[p] = "listed" /\ err[p] = NoErr
        /\ ~cr.isNil /\ cr.items = rulesL[p]
        /\ Len(rules) > 0 /\ Len(rulesL[p]) = Len(rules) + 1
        /\ NewRule(SpecTop) \in Elems(rulesL[p])

\* whether ServeHTTP must answer request r itself, and the answer it must give
MustReject(r) ==
    \/ r.method \notin {"GET", "HEAD"}
    \/ ~HasPrefix(r.path, <<"/", "v2", "/">>)
    \/ r.path = <<"/", "v2", "/">>
    \/ Len(Split(r.path)) < MinParts
AnswerFor(r) ==
    IF r.method \notin {"GET", "HEAD"}
    THEN [status |-> StatusMethodNotAllowed, body |-> "method not allowed"]
    ELSE IF ~HasPrefix(r.path, <<"/", "v2", "/">>)
    THEN [status |-> StatusNotFound, body |-> "not found"]
    ELSE IF r.path = <<"/", "v2", "/">>
    THEN [status |-> StatusOK, body |-> "ok"]
    ELSE [status |-> StatusNotFound, body |-> "not found"]
RejectTable == [r \in Requests |-> MustReject(r)]
AnswerTable == [r \in Requests |-> AnswerFor(r)]
Rejected(p) == RejectTable[req[p]]
ExpectedAnswer(p) == AnswerTable[req[p]]

\* C13: a request with a method other than GET/HEAD (whatever its path), a
\* GET/HEAD outside /v2/, a GET/HEAD for exactly /v2/ and a path with fewer
\* than the minimum number of pieces are answered 405, 404, 200 "ok" and 404 by
\* ServeHTTP itself; such a request never registers a build lock, never
\* resolves rules and never calls the Image Store build.
C13_RoutingRejectsFirst ==
    \A p \in Procs :
        Rejected(p)
        => /\ pc[p] \in {"idle", "done"}
           /\ pc[p] = "done" => resp[p] = ExpectedAnswer(p)
           /\ pc[p] = "idle" => resp[p] = NoResponse
           /\ mut[p] = NoMutex /\ via[p] = "" /\ rulesL[p] = <<>> /\ calls[p] = 0
           /\ \A ref \in DOMAIN buildMutex : buildMutex[ref] # p

\* C13 witness: a POST for a manifest path a rule matches was answered 405 and
\* a HEAD for /v2/ was answered 200 "ok", with the registry empty and no build
\* call made.
C13_Witness ==
    \E p, q \in Procs :
        /\ req[p] = Request("POST", PathApp) /\ pc[p] = "done"
        /\ resp[p].status = StatusMethodNotAllowed
        /\ \E i \in 1..Len(rules) : MatchOk(rules[i], RefApp)
        /\ req[q] = Request("HEAD", PathRoot) /\ pc[q] = "done"
        /\ resp[q] = Response(StatusOK, "ok")
        /\ buildMutex = <<>> /\ calls[p] = 0 /\ calls[q] = 0

\* the positions of a builder from having stored its entry up to its deferred
\* Delete
InFlight == {"lock", "lockwait", "getrules", "crlock", "crstore", "match",
             "building", "delete"}

\* C14: the registry holds an entry for a reference exactly while a builder
\* for it is between storing the entry and its deferred Delete: every entry
\* belongs to one such builder of that reference, every such builder (in
\* particular one whose Image Store build is executing) has its entry in the
\* registry, a builder that is past its Delete has none whether its build
\* succeeded or failed, and the registry is empty once every request has
\* returned.
C14_EntryLifetime ==
    /\ \A ref \in DOMAIN buildMutex :
         /\ RefP(buildMutex[ref]) = ref
         /\ pc[buildMutex[ref]] \in InFlight
         /\ mut[buildMutex[ref]] = buildMutex[ref]
    /\ \A p \in Procs :
         (pc[p] \in InFlight)
         => (RefP(p) \in DOMAIN buildMutex /\ buildMutex[RefP(p)] = p)
    /\ (\A p \in Procs : pc[p] = "done") => buildMutex = <<>>

\* C14 witness: every request has returned, one after a failed build and one
\* after a successful build, and the registry is empty.
C14_Witness ==
    \E p, q \in Procs :
        /\ \A x \in Procs : pc[x] = "done"
        /\ calls[p] = 1 /\ err[p] = BuildErr
        /\ calls[q] = 1 /\ err[q] = NoErr /\ resp[q].status = StatusOK
        /\ buildMutex = <<>>

\* p holds a per-reference build lock: exclusively (builder) or shared (waiter)
HoldsBuildLock(p) ==
    \/ rw[p].writer = "held"
    \/ \E b \in Procs : p \in rw[b].readers

\* C15: the build locks and the rule-cache lock are never nested: no goroutine
\* holds h.crMut while it holds a build lock.
C15_LocksNeverNested ==
    \A p \in Procs : crMut = p => ~HoldsBuildLock(p)

\* C15 failing run: a builder inside getRules holds h.crMut while it holds its
\* build lock exclusively and its entry is in the registry.
C15_NestedHold ==
    \E p \in Procs :
        /\ crMut = p /\ pc[p] = "crstore"
        /\ rw[p].writer = "held"
        /\ RefP(p) \in DOMAIN buildMutex /\ buildMutex[RefP(p)] = p

\* C16: under fair scheduling, with every h.image.Build call returning, every
\* call of build returns (to the serve step or the 500 answer), for builders
\* and waiters alike, and every resetCR call the informer makes returns.
C16_EveryCallReturns ==
    /\ \A p \in Procs : (pc[p] = "build") ~> (pc[p] \in {"serve", "done"})
    /\ (wpc = "notify") ~> (wpc = "run")

\* C16 witness: a waiter holds the shared lock it took before the builder asked
\* for the exclusive lock, the builder waits for it, and a notification is
\* waiting to be delivered.
C16_Witness ==
    \E b, w \in Procs :
        /\ pc[b] = "lockwait" /\ rw[b].writer = "pending"
        /\ w \in rw[b].readers /\ pc[w] = "runlock"
        /\ wpc = "notify"

\* C17: a tag-manifest request whose os.Stat finds the manifest file goes
\* straight to the serve step: it never calls build, so it stores no registry
\* entry, resolves no rules and makes no h.image.Build call, whatever the
\* rules are, and the serve step only answers.
C17_CachedSkipsBuild ==
    [][ \A p \in Procs :
          /\ (IsTagRequest(p) /\ pc[p] = "manifests" /\ HasManifest(p)
                /\ pc'[p] # "manifests")
             => /\ pc'[p] = "serve" /\ mut'[p] = NoMutex
                /\ buildMutex' = buildMutex
          /\ (IsTagRequest(p) /\ pc[p] = "serve" /\ mut[p] = NoMutex)
             => /\ pc'[p] \in {"serve", "done"}
                /\ mut'[p] = NoMutex /\ calls'[p] = 0 /\ via'[p] = ""
                /\ rulesL'[p] = <<>>
                /\ \A ref \in DOMAIN buildMutex' : buildMutex'[ref] # p ]_vars

\* C17 witness: with a rule matching its reference, a tag request whose
\* manifest was cached has been served the file without a registry entry, a
\* rule resolution or a build call.
C17_Witness ==
    \E p \in Procs :
        /\ IsTagRequest(p) /\ HasManifest(p)
        /\ \E i \in 1..Len(rules) : MatchOk(rules[i], RefP(p))
        /\ pc[p] = "done" /\ resp[p] = Response(StatusOK, "file")
        /\ mut[p] = NoMutex /\ calls[p] = 0 /\ via[p] = ""
        /\ \A q \in Procs : calls[q] = 0

\* p and q ask for different (image, tag) pairs
DistinctTargets(p, q) == ManifestTable[req[p]] # ManifestTable[req[q]]

\* C18: while the Image Store build of q is executing under q's exclusive
\* lock, a request p for a different reference is never held up by it: the
\* registry entry p finds (if any) is not q's, so p stores its own entry, takes
\* its own lock, resolves the rules and starts its own build; whenever p is
\* blocked on a build lock, the goroutine it waits for serves p's reference.
C18_DistinctRefsIndependent ==
    \A p, q \in Procs :
        (/\ p # q /\ IsTagRequest(p) /\ IsTagRequest(q) /\ DistinctTargets(p, q)
         /\ pc[q] = "building" /\ rw[q].writer = "held")
        => /\ pc[p] = "build" =>
                /\ ENABLED LoadOrStore(p)
                /\ RefP(p) \in DOMAIN buildMutex => buildMutex[RefP(p)] # q
           /\ pc[p] = "lock" => ENABLED Lock(p)
           /\ pc[p] = "lockwait" => q \notin rw[p].readers
           /\ pc[p] = "rlock" => mut[p] # q
           /\ pc[p] = "getrules" => ENABLED GetRules(p)
           /\ pc[p] = "crlock" => crMut # q
           /\ pc[p] = "match" => ENABLED Match(p)
           /\ pc[p] = "building" => (ENABLED BuildReturn(p) /\ mut[p] = p)

\* C18 witness: the builds for two different references are executing at the
\* same time, each under its own exclusively held lock and registry entry.
C18_Witness ==
    \E p, q \in Procs :
        /\ RefP(p) # RefP(q)
        /\ pc[p] = "building" /\ pc[q] = "building"
        /\ rw[p].writer = "held" /\ rw[q].writer = "held"
        /\ buildMutex[RefP(p)] = p /\ buildMutex[RefP(q)] = q

\* x inserted into a sorted sequence behind every element it is not less than
RECURSIVE StableInsert(_, _)
StableInsert(sorted, x) ==
    IF Len(sorted) = 0 THEN <<x>>
    ELSE IF LessThan(x, sorted[Len(sorted)])
         THEN Append(StableInsert(SubSeq(sorted, 1, Len(sorted) - 1), x),
                     sorted[Len(sorted)])
         ELSE Append(sorted, x)
\* the stable sort of a sequence by LessThan: ties keep their input order
RECURSIVE StableSorted(_)
StableSorted(s) ==
    IF Len(s) = 0 THEN <<>>
    ELSE StableInsert(StableSorted(SubSeq(s, 1, Len(s) - 1)), s[Len(s)])

\* C19: every list getRules returns is sorted by LessThan with ties in input
\* order: the static list is the stable sort of the configuration, a merged
\* list the stable sort of the configured rules followed by the cluster rules
\* in list order.
C19_SortedStable ==
    [][ \A p \in Procs :
          (pc[p] # "match" /\ pc'[p] = "match")
          => /\ IsSorted(rulesL'[p])
             /\ via'[p] = "static" =>
                  rulesL'[p] = StableSorted(ConvertAll(config))
             /\ via'[p] = "listed" =>
                  rulesL'[p] = StableSorted(ConvertAll(config) \o ConvertAll(list[p])) ]_vars

\* C19 failing run: under the long configuration getRules returned the static
\* list with the rule configured seventh ahead of the rule configured first,
\* although the two tie, and the build for app:v1 took the mutation of the
\* seventh where the stable order selects the first.
C19_TieReordered ==
    \E p \in Procs :
        /\ config = LongConfig
        /\ pc[p] = "building" /\ via[p] = "static"
        /\ rulesL[p] # StableSorted(ConvertAll(config))
        /\ rulesL[p][2] = NewRule(LongConfig[7])
        /\ rulesL[p][7] = NewRule(LongConfig[1])
        /\ ~LessThan(NewRule(LongConfig[7]), NewRule(LongConfig[1]))
        /\ mutates[p] = LongConfig[7].mutates
        /\ StableSorted(ConvertAll(config))[FirstMatchIndex(StableSorted(ConvertAll(config)), RefP(p))].mutates
               = LongConfig[1].mutates

\* C20: whenever a merged list is cached and no notification is pending (the
\* resetCR of every store change made so far has returned), the cached list is
\* a sorted merge of the static rules with the rules of the objects the store
\* now holds.
C20_CacheNeverStale ==
    (~cr.isNil /\ wpc # "notify")
    => \E l \in StoreList(objects) : IsSortedMerge(cr.items, rules, l)

\* C20 witness: a goroutine still works with the list it resolved before the
\* store changed; that change's resetCR has returned, and the list cached now
\* holds the added object's rule in first place.
C20_Witness ==
    \E p \in Procs :
        /\ via[p] = "listed" /\ rulesL[p] = rules
        /\ pc[p] \in {"match", "building", "delete", "unlock"}
        /\ "o1" \in DOMAIN objects /\ events = 1 /\ wpc = "run"
        /\ ~cr.isNil /\ Len(cr.items) = Len(rules) + 1
        /\ cr.items[1] = NewRule(SpecTop)

====
